---------------------------- MODULE Spec2Model ----------------------------
(***************************************************************************)
(* A model of kik_sync_service: ChannelConfig (kik_channel.rs), the        *)
(* DeliveryService pool (kik_channel.rs), the FeederRecycler that runs on  *)
(* the caller's thread (kik_feeder.rs) and the Worker threads              *)
(* (kik_worker.rs).                                                        *)
(*                                                                         *)
(* Five specifications:                                                    *)
(*   SpecConfig  the setters of ChannelConfig, called in any order with    *)
(*               any argument, starting from ChannelConfig::default();     *)
(*   Spec        one DeliveryService built from a valid ChannelConfig, its *)
(*               caller (feed_feeder, next, drop) and its Worker threads,  *)
(*               interleaved at every channel, lock and Arc operation;     *)
(*   FairSpec    Spec with weak fairness on every thread's steps;          *)
(*   SpecFail    message.work() may panic in a Worker, and the pool is     *)
(*               dropped only after that;                                  *)
(*   SpecSingleFeed  Spec where the caller feeds the pool once.            *)
(*                                                                         *)
(* A try_send, try_recv or try_lock that fails and is retried changes      *)
(* nothing, so a retry loop is an action that is enabled when the attempt  *)
(* succeeds.                                                               *)
(***************************************************************************)
EXTENDS Integers, Sequences, FiniteSets, Bags

(***************************************************************************)
(* Bounds of the model.                                                    *)
(***************************************************************************)
\* usize is modelled UsizeBits wide: arithmetic on it is taken modulo
\* 2^UsizeBits (the program's usize is 32 or 64 bits wide; the model keeps
\* the wrap-around and scales the width down).
UsizeBits == 5
\* the largest worker_number of a DeliveryService in Spec
MaxWorkers == 2
\* the largest package_number of a DeliveryService in Spec
MaxPackages == 4
\* the total number of inputs the caller feeds in one behaviour of Spec
MaxFeed == 4

(***************************************************************************)
(* ChannelConfig                                                           *)
(***************************************************************************)
VARIABLES
    cfg,              \* the ChannelConfig: its four fields
    cfg_call,         \* the last setter called and its argument
    cfg_result,       \* how that call ended: "ok" or "panic"
    overflow_checks   \* the build: TRUE traps usize overflow, FALSE wraps

cfgVars == <<cfg, cfg_call, cfg_result, overflow_checks>>

UsizeModulus == 2 ^ UsizeBits

Usize == 0 .. (UsizeModulus - 1)

DefaultWorkerNumber == 8

DefaultStackSize == 2 * 1024 * 1024

\* impl Default for ChannelConfig
ChannelConfigDefault ==
    LET worker_number == DefaultWorkerNumber
        channel_size == worker_number
        package_number == (channel_size * 2) % UsizeModulus
    IN  [stack_size |-> DefaultStackSize,
         worker_number |-> worker_number,
         channel_size |-> channel_size,
         package_number |-> package_number]

\* ChannelConfig::set_worker_number. The fields are assigned in the order of
\* the source; worker_number * 2 is a usize multiplication, which traps after
\* the first two assignments when the build checks overflow and wraps when it
\* does not.
set_worker_number(c, worker_number, checks) ==
    IF worker_number < 1
    THEN [cfg |-> c, result |-> "panic"]
    ELSE LET c1 == [c EXCEPT !.worker_number = worker_number]
             c2 == [c1 EXCEPT !.channel_size = worker_number]
         IN  IF worker_number * 2 >= UsizeModulus /\ checks
             THEN [cfg |-> c2, result |-> "panic"]
             ELSE [cfg |-> [c2 EXCEPT !.package_number =
                                  (worker_number * 2) % UsizeModulus],
                   result |-> "ok"]

\* ChannelConfig::set_package_number
set_package_number(c, package_number) ==
    IF package_number <= c.worker_number
    THEN [cfg |-> c, result |-> "panic"]
    ELSE [cfg |-> [c EXCEPT !.package_number = package_number],
          result |-> "ok"]

\* ChannelConfig::set_stack_size
set_stack_size(c, new_stack_size) ==
    [cfg |-> [c EXCEPT !.stack_size = new_stack_size], result |-> "ok"]

\* the stack sizes the model's caller passes (stored, never computed with)
StackSizes == {0, 1, DefaultStackSize}

(***************************************************************************)
(* DeliveryService, FeederRecycler and Worker                              *)
(***************************************************************************)
VARIABLES
    pc,            \* where the caller's thread is: "idle" between calls, a
                   \* place inside next() or drop(), "dropped" afterwards
    last_op,       \* the last call of the caller that returned
    last_id,       \* DeliveryService.last_id
    thread_vec,    \* DeliveryService.thread_vec: the ids of the spawned threads
    rx_inserter,   \* DeliveryService.rx_inserter: the pool's Arc is alive
    tx_deliverer,  \* DeliveryService.tx_deliverer: the pool's sender is alive
    messages,      \* FeederRecycler.messages
    input_vec,     \* FeederRecycler.input_vec
    tx_inserter,   \* FeederRecycler.tx_inserter is alive
    rx_deliverer,  \* FeederRecycler.rx_deliverer is alive
    message,       \* the message the feeder holds inside send_message
    new_input,     \* retrieve_data's new_input (0: none)
    new_data,      \* retrieve_data's new_data (0: none)
    feed_left,     \* iterations left of feed_initial_messages' for loop
    inserter,      \* the buffer of the inserter (dispatch) channel
    deliverer,     \* the buffer of the deliverer (collection) channel
    lock,          \* the Worker holding the Mutex of the receiver, 0: free
    poisoned,      \* the Mutex is poisoned: a thread panicked holding its guard
    wstate,        \* each Worker thread's place in Worker::run
    wmsg,          \* the message each Worker holds
    fed,           \* history: how many inputs feed_feeder has taken
    results,       \* history: the bag of the data next() has returned
    constructed,   \* history: how many times the feeder called S::new()
    eos,           \* history: <<fed, number of results>> at each None
                   \* returned by next() after a further feed
    borrowed_vec,  \* the caller's vector as the last feed_feeder left it
    call_backlog,  \* history: input_vec as it was when the next() that is
                   \* running was called, <<>> between calls
    handled,       \* history: the bags of the inputs of the messages the
                   \* feeder sent and the Workers received, worked and
                   \* delivered
    crash_seen     \* history: a next() was called after a Worker had ended

callerVars == <<pc, last_op>>

poolVars == <<last_id, thread_vec, rx_inserter, tx_deliverer>>

feederVars ==
    <<messages, input_vec, tx_inserter, rx_deliverer, message, new_input,
      new_data, feed_left>>

chanVars == <<inserter, deliverer, lock, poisoned>>

workerVars == <<wstate, wmsg>>

histVars == <<fed, results, constructed, eos>>

auxVars == <<borrowed_vec, call_backlog, handled, crash_seen>>

vars ==
    <<cfgVars, callerVars, poolVars, feederVars, chanVars, workerVars,
      histVars, auxVars>>

Workers == 1 .. MaxWorkers

\* DeliveryService::new copies these from the ChannelConfig
worker_number == cfg.worker_number

package_number == cfg.package_number

channel_size == cfg.channel_size

(***************************************************************************)
(* Messages: the model's Message carries the input it was given and the    *)
(* data of the last input it was worked with; inputs are numbered from 1   *)
(* in the order they are fed, 0 is R::new() / T::new().                    *)
(***************************************************************************)
\* Message::new
new_message == [input |-> 0, data |-> 0]

\* Message::set_input
set_input(m, message_input) == [m EXCEPT !.input = message_input]

\* Message::work
work(m) == [m EXCEPT !.data = m.input]

\* Message::clone_message_data
clone_message_data(m) == m.data

Last(s) == s[Len(s)]

Front(s) == SubSeq(s, 1, Len(s) - 1)

(***************************************************************************)
(* The channels                                                            *)
(***************************************************************************)
\* the Worker states in which the thread holds an upgraded (strong) Arc
Upgraded == {"upgraded", "locked", "disconnected"}

\* the Mutex<Receiver> of the inserter channel lives while a strong Arc does
StrongHolders == {w \in Workers : wstate[w] \in Upgraded}

\* the life of the Receiver, had the pool kept a Weak of it like the Workers
ReceiverAlive_workers_only == StrongHolders # {}

ReceiverAlive == rx_inserter \/ StrongHolders # {}

\* the buffer of the inserter channel after Worker w gives up its strong Arc:
\* the last strong Arc destroys the Receiver and what it still buffers
InserterAfterRelease(w, buf) ==
    IF ~rx_inserter /\ StrongHolders \ {w} = {} THEN <<>> ELSE buf

\* the senders of the deliverer channel, were the Workers' clones the only
\* ones
DelivererSenders_workers_only ==
    \E w \in Workers : wstate[w] \notin {"unspawned", "panicked"}

\* the senders of the deliverer channel: the pool's and one per live Worker
DelivererSenders ==
    tx_deliverer
    \/ \E w \in Workers : wstate[w] \notin {"unspawned", "panicked"}

(***************************************************************************)
(* FeederRecycler: the feeder's state as one record, so that the steps of  *)
(* retrieve_data compose                                                   *)
(***************************************************************************)
Feeder ==
    [pc |-> pc, messages |-> messages, input_vec |-> input_vec,
     message |-> message, new_input |-> new_input, new_data |-> new_data,
     feed_left |-> feed_left, constructed |-> constructed, ret |-> "pending"]

\* retrieve_data returns Some(new_data)
ReturnSome(f) ==
    [f EXCEPT !.pc = "idle", !.ret = "Some", !.message = new_message,
              !.new_input = 0, !.feed_left = 0]

\* retrieve_data returns None
ReturnNone(f) == [f EXCEPT !.pc = "idle", !.ret = "None"]

\* what follows a finished feed_initial_messages called at `at`
AfterFeed(f, at) ==
    LET f1 == [f EXCEPT !.feed_left = 0]
    IN  CASE at = "c3_feed1" -> [f1 EXCEPT !.pc = "c3_get"]
          [] at = "c3_feed2" -> ReturnSome(f1)
          [] at = "c4_feed" -> [f1 EXCEPT !.pc = "c4_get"]

\* feed_initial_messages taking the first input of input_vec (remove(0))
FeedLoop_from_front(f, at) ==
    IF f.feed_left > 0 /\ f.input_vec # <<>>
    THEN [f EXCEPT !.pc = at,
                   !.feed_left = @ - 1,
                   !.input_vec = Tail(@),
                   !.message = set_input(new_message, Head(f.input_vec)),
                   !.constructed = @ + 1]
    ELSE AfterFeed(f, at)

\* feed_initial_messages whose loop goes on while input_vec has inputs,
\* whatever the range messages..package_number
FeedLoop_while_inputs(f, at) ==
    IF f.input_vec # <<>>
    THEN [f EXCEPT !.pc = at,
                   !.feed_left = IF @ > 0 THEN @ - 1 ELSE 0,
                   !.input_vec = Front(@),
                   !.message = set_input(new_message, Last(f.input_vec)),
                   !.constructed = @ + 1]
    ELSE AfterFeed(f, at)

\* feed_initial_messages, one turn of its for loop up to the send_message
FeedLoop(f, at) ==
    IF f.feed_left > 0 /\ f.input_vec # <<>>
    THEN [f EXCEPT !.pc = at,
                   !.feed_left = @ - 1,
                   !.input_vec = Front(@),
                   !.message = set_input(new_message, Last(f.input_vec)),
                   !.constructed = @ + 1]
    ELSE AfterFeed(f, at)

\* feed_initial_messages that sends a message for every waiting input
feed_initial_messages_unbounded(f, at) ==
    FeedLoop([f EXCEPT !.feed_left = Len(f.input_vec)], at)

\* feed_initial_messages with the range messages..=package_number
feed_initial_messages_inclusive(f, at) ==
    FeedLoop([f EXCEPT !.feed_left = IF f.messages <= package_number
                                     THEN package_number - f.messages + 1
                                     ELSE 0],
             at)

\* feed_initial_messages with an `if` for the `for`: at most one message
feed_initial_messages_single(f, at) ==
    FeedLoop([f EXCEPT !.feed_left = IF f.messages < package_number
                                     THEN 1
                                     ELSE 0],
             at)

\* feed_initial_messages: the range messages..package_number is taken once
feed_initial_messages(f, at) ==
    FeedLoop([f EXCEPT !.feed_left = IF f.messages < package_number
                                     THEN package_number - f.messages
                                     ELSE 0],
             at)

\* retrieve_data that ends the iteration as soon as input_vec is empty,
\* without looking at messages
retrieve_data_none_on_empty(f) ==
    IF f.input_vec = <<>>
    THEN ReturnNone(f)
    ELSE LET f1 == [f EXCEPT !.input_vec = Front(@),
                             !.new_input = Last(f.input_vec)]
         IN  IF f1.messages = 0
             THEN [f1 EXCEPT !.pc = "c3_send",
                             !.message = set_input(new_message, f1.new_input),
                             !.new_input = 0,
                             !.constructed = @ + 1]
             ELSE IF f1.messages < package_number
                  THEN feed_initial_messages(f1, "c4_feed")
                  ELSE [f1 EXCEPT !.pc = "c4_get"]

\* retrieve_data whose branch for an empty input_vec calls get_message
\* without the test `self.messages == 0`
retrieve_data_get_unchecked(f) ==
    IF f.input_vec = <<>>
    THEN [f EXCEPT !.pc = "c2_get"]
    ELSE LET f1 == [f EXCEPT !.input_vec = Front(@),
                             !.new_input = Last(f.input_vec)]
         IN  IF f1.messages = 0
             THEN [f1 EXCEPT !.pc = "c3_send",
                             !.message = set_input(new_message, f1.new_input),
                             !.new_input = 0,
                             !.constructed = @ + 1]
             ELSE IF f1.messages < package_number
                  THEN feed_initial_messages(f1, "c4_feed")
                  ELSE [f1 EXCEPT !.pc = "c4_get"]

\* retrieve_data from its start up to its first channel operation
retrieve_data(f) ==
    IF f.input_vec = <<>>
    THEN IF f.messages = 0
         THEN ReturnNone(f)
         ELSE [f EXCEPT !.pc = "c2_get"]
    ELSE LET f1 == [f EXCEPT !.input_vec = Front(@),
                             !.new_input = Last(f.input_vec)]
         IN  IF f1.messages = 0
             THEN [f1 EXCEPT !.pc = "c3_send",
                             !.message = set_input(new_message, f1.new_input),
                             !.new_input = 0,
                             !.constructed = @ + 1]
             ELSE IF f1.messages < package_number
                  THEN feed_initial_messages(f1, "c4_feed")
                  ELSE [f1 EXCEPT !.pc = "c4_get"]

\* FeederRecycler::send_message once its try_send has succeeded, and
\* retrieve_data from there up to its next channel operation
\* send_message without `self.messages = self.messages + 1`
send_message_uncounted(f) ==
    LET f1 == [f EXCEPT !.message = new_message]
    IN  CASE f.pc = "c3_send" -> feed_initial_messages(f1, "c3_feed1")
          [] f.pc \in {"c3_feed1", "c3_feed2", "c4_feed"} -> FeedLoop(f1, f.pc)
          [] f.pc = "c4_send" -> ReturnSome(f1)

send_message(f) ==
    LET f1 == [f EXCEPT !.messages = @ + 1, !.message = new_message]
    IN  CASE f.pc = "c3_send" -> feed_initial_messages(f1, "c3_feed1")
          [] f.pc \in {"c3_feed1", "c3_feed2", "c4_feed"} -> FeedLoop(f1, f.pc)
          [] f.pc = "c4_send" -> ReturnSome(f1)

\* get_message and retrieve_data, where the recycling branch returns the
\* data without sending the message back with new_input
get_message_no_recycle(f, m) ==
    LET f1 == [f EXCEPT !.messages = @ - 1,
                        !.new_data = clone_message_data(m)]
    IN  CASE f.pc = "c2_get" -> ReturnSome(f1)
          [] f.pc = "c3_get" -> feed_initial_messages(f1, "c3_feed2")
          [] f.pc = "c4_get" -> ReturnSome(f1)

\* get_message that does not count the message it received
get_message_no_decrement(f, m) ==
    LET f1 == [f EXCEPT !.new_data = clone_message_data(m)]
    IN  CASE f.pc = "c2_get" -> ReturnSome(f1)
          [] f.pc = "c3_get" -> feed_initial_messages(f1, "c3_feed2")
          [] f.pc = "c4_get" ->
                [f1 EXCEPT !.pc = "c4_send",
                           !.message = set_input(m, f.new_input),
                           !.new_input = 0]

\* get_message and retrieve_data, where the recycling branch sends new_input
\* in a message made by S::new() and drops the one it received
get_message_fresh(f, m) ==
    LET f1 == [f EXCEPT !.messages = @ - 1,
                        !.new_data = clone_message_data(m)]
    IN  CASE f.pc = "c2_get" -> ReturnSome(f1)
          [] f.pc = "c3_get" -> feed_initial_messages(f1, "c3_feed2")
          [] f.pc = "c4_get" ->
                [f1 EXCEPT !.pc = "c4_send",
                           !.message = set_input(new_message, f.new_input),
                           !.new_input = 0,
                           !.constructed = @ + 1]

\* FeederRecycler::get_message once its try_recv has returned new_message, and
\* retrieve_data from there up to its next channel operation
\* get_message whose case 3 returns without the second
\* feed_initial_messages
get_message_no_refill(f, m) ==
    LET f1 == [f EXCEPT !.messages = @ - 1,
                        !.new_data = clone_message_data(m)]
    IN  CASE f.pc = "c2_get" -> ReturnSome(f1)
          [] f.pc = "c3_get" -> ReturnSome(f1)
          [] f.pc = "c4_get" ->
                [f1 EXCEPT !.pc = "c4_send",
                           !.message = set_input(m, f.new_input),
                           !.new_input = 0]

get_message(f, m) ==
    LET f1 == [f EXCEPT !.messages = @ - 1,
                        !.new_data = clone_message_data(m)]
    IN  CASE f.pc = "c2_get" -> ReturnSome(f1)
          [] f.pc = "c3_get" -> feed_initial_messages(f1, "c3_feed2")
          [] f.pc = "c4_get" ->
                [f1 EXCEPT !.pc = "c4_send",
                           !.message = set_input(m, f.new_input),
                           !.new_input = 0]

SendPcs == {"c3_send", "c3_feed1", "c3_feed2", "c4_feed", "c4_send"}

GetPcs == {"c2_get", "c3_get", "c4_get"}

NextPcs == SendPcs \cup GetPcs

DropPcs ==
    {"drop_lock", "drop_tx_inserter", "drop_rx_deliverer", "drop_rx_inserter",
     "drop_tx_deliverer", "dropped"}

\* FeederRecycler::get_remaining_messages, DeliveryService::len
get_remaining_messages == messages + Len(input_vec)

\* the caller's thread takes the feeder's state r; a returning next() hands
\* its value to the caller
SetFeeder(r) ==
    /\ pc' = r.pc
    /\ messages' = r.messages
    /\ input_vec' = r.input_vec
    /\ message' = r.message
    /\ new_input' = r.new_input
    /\ feed_left' = r.feed_left
    /\ constructed' = r.constructed
    /\ new_data' = IF r.ret = "Some" THEN 0 ELSE r.new_data
    /\ results' = IF r.ret = "Some" THEN results (+) SetToBag({r.new_data})
                  ELSE results
    /\ last_op' = CASE r.ret = "Some" -> "next:Some"
                    [] r.ret = "None" -> "next:None"
                    [] OTHER -> last_op
    /\ eos' = IF r.ret = "None" /\ (eos = <<>> \/ Last(eos)[1] < fed)
              THEN Append(eos, <<fed, BagCardinality(results)>>)
              ELSE eos
    /\ call_backlog' = CASE r.pc = "idle" -> <<>>
                         [] pc = "idle" -> input_vec
                         [] OTHER -> call_backlog

(***************************************************************************)
(* The caller's thread                                                     *)
(***************************************************************************)
\* build_workers with the range thread_vec.len()..=worker_number
build_workers_ids_inclusive ==
    IF Len(thread_vec) <= worker_number
    THEN [i \in 1 .. (worker_number - Len(thread_vec) + 1) |-> last_id + i]
    ELSE <<>>

\* build_workers counting the threads that are alive and not thread_vec
build_workers_ids_respawn ==
    LET alive == Cardinality({w \in Workers :
                                 wstate[w] \notin {"unspawned", "panicked"}})
    IN  IF alive < worker_number
        THEN [i \in 1 .. (worker_number - alive) |-> last_id + i]
        ELSE <<>>

\* build_workers taking the id of a thread before it increments last_id
build_workers_ids_before_increment ==
    IF Len(thread_vec) < worker_number
    THEN [i \in 1 .. (worker_number - Len(thread_vec)) |-> last_id + i - 1]
    ELSE <<>>

\* DeliveryService::build_workers: the threads it spawns, by id
build_workers_ids ==
    IF Len(thread_vec) < worker_number
    THEN [i \in 1 .. (worker_number - Len(thread_vec)) |-> last_id + i]
    ELSE <<>>

\* append_input copying the caller's vector (Vec::extend_from_slice)
append_input_copy(vec, other) == [input_vec |-> vec \o other, other |-> other]

\* FeederRecycler::append_input: Vec::append moves every element of the
\* caller's vector to the end of input_vec and leaves that vector empty
append_input(vec, other) == [input_vec |-> vec \o other, other |-> <<>>]

\* DeliveryService::feed_feeder / FeederRecycler::append_input with a vector
\* of n inputs; the inputs are numbered fed+1 .. fed+n in the vector's order
FeedFeeder(n) ==
    /\ pc = "idle"
    /\ fed + n <= MaxFeed
    /\ LET r == append_input(input_vec, [i \in 1 .. n |-> fed + i])
       IN  /\ input_vec' = r.input_vec
           /\ borrowed_vec' = r.other
    /\ fed' = fed + n
    /\ last_op' = "feed"
    /\ UNCHANGED <<cfgVars, pc, poolVars, messages, tx_inserter, rx_deliverer,
                   message, new_input, new_data, feed_left, chanVars,
                   workerVars, results, constructed, eos, call_backlog,
                   handled, crash_seen>>

\* Iterator::next for &mut DeliveryService: build_workers, then
\* FeederRecycler::next = retrieve_data up to its first channel operation
NextCall ==
    /\ pc = "idle"
    /\ LET ids == build_workers_ids
       IN  /\ thread_vec' = thread_vec \o ids
           /\ last_id' = last_id + Len(ids)
           /\ wstate' = [w \in Workers |->
                            IF \E i \in 1 .. Len(ids) : ids[i] = w
                            THEN "poll"
                            ELSE wstate[w]]
    /\ SetFeeder(retrieve_data(Feeder))
    /\ crash_seen' = (crash_seen \/ \E w \in Workers : wstate[w] = "panicked")
    /\ UNCHANGED <<cfgVars, rx_inserter, tx_deliverer, tx_inserter,
                   rx_deliverer, chanVars, wmsg, fed, borrowed_vec, handled>>

\* FeederRecycler::send_message: one try_send on the inserter channel. Full
\* leaves the loop where it is (the step is not taken); Disconnected panics.
\* a send on tx_inserter that enqueues whatever the channel holds
FeederSend_unbounded ==
    /\ pc \in SendPcs
    /\ IF ~ReceiverAlive
       THEN /\ pc' = "panicked"
            /\ UNCHANGED <<last_op, messages, input_vec, message, new_input,
                           new_data, feed_left, inserter, results, constructed,
                           eos, call_backlog, handled>>
       ELSE /\ inserter' = Append(inserter, message)
            /\ handled' = [handled EXCEPT !.sent =
                               @ (+) SetToBag({message.input})]
            /\ SetFeeder(send_message(Feeder))
    /\ UNCHANGED <<cfgVars, poolVars, tx_inserter, rx_deliverer, deliverer,
                   lock, poisoned, workerVars, fed, borrowed_vec, crash_seen>>

FeederSend ==
    /\ pc \in SendPcs
    /\ IF ~ReceiverAlive
       THEN /\ pc' = "panicked"
            /\ UNCHANGED <<last_op, messages, input_vec, message, new_input,
                           new_data, feed_left, inserter, results, constructed,
                           eos, call_backlog, handled>>
       ELSE /\ Len(inserter) < channel_size
            /\ inserter' = Append(inserter, message)
            /\ handled' = [handled EXCEPT !.sent =
                               @ (+) SetToBag({message.input})]
            /\ SetFeeder(send_message(Feeder))
    /\ UNCHANGED <<cfgVars, poolVars, tx_inserter, rx_deliverer, deliverer,
                   lock, poisoned, workerVars, fed, borrowed_vec, crash_seen>>

\* FeederRecycler::get_message: one try_recv on the deliverer channel. Empty
\* leaves the loop where it is (the step is not taken); Disconnected panics.
FeederGet ==
    /\ pc \in GetPcs
    /\ IF deliverer = <<>> /\ ~DelivererSenders
       THEN /\ pc' = "panicked"
            /\ UNCHANGED <<last_op, messages, input_vec, message, new_input,
                           new_data, feed_left, deliverer, results,
                           constructed, eos, call_backlog>>
       ELSE /\ deliverer # <<>>
            /\ deliverer' = Tail(deliverer)
            /\ SetFeeder(get_message(Feeder, Head(deliverer)))
    /\ UNCHANGED <<cfgVars, poolVars, tx_inserter, rx_deliverer, inserter,
                   lock, poisoned, workerVars, fed, borrowed_vec, handled,
                   crash_seen>>

\* the caller lets the DeliveryService go out of scope: Drop::drop starts
DropBegin ==
    /\ pc = "idle"
    /\ pc' = "drop_lock"
    /\ last_op' = "drop"
    /\ UNCHANGED <<cfgVars, poolVars, feederVars, chanVars, workerVars,
                   histVars, auxVars>>

\* Drop for DeliveryService: one try_lock of the loop. Ok releases the guard
\* at once and leaves the loop, and so does Poisoned (the Mutex is free and
\* poisoned); WouldBlock tries again (the step is not taken).
DropTryLock ==
    /\ pc = "drop_lock"
    /\ lock = 0
    /\ pc' = "drop_tx_inserter"
    /\ UNCHANGED <<cfgVars, last_op, poolVars, feederVars, chanVars,
                   workerVars, histVars, auxVars>>

\* After Drop::drop the fields are dropped in the order of their declaration:
\* thread_vec (the threads are detached), feeder (input_vec, tx_inserter,
\* rx_deliverer), rx_inserter, tx_deliverer. The std::mem::drop(&field) calls
\* inside drop() drop references and do nothing.
DropFields ==
    /\ pc \in {"drop_tx_inserter", "drop_rx_deliverer", "drop_rx_inserter",
               "drop_tx_deliverer"}
    /\ CASE pc = "drop_tx_inserter" ->
              /\ pc' = "drop_rx_deliverer"
              /\ input_vec' = <<>>
              /\ tx_inserter' = FALSE
              /\ UNCHANGED <<rx_deliverer, deliverer, rx_inserter, inserter,
                             tx_deliverer>>
         [] pc = "drop_rx_deliverer" ->
              /\ pc' = "drop_rx_inserter"
              /\ rx_deliverer' = FALSE
              /\ deliverer' = <<>>
              /\ UNCHANGED <<input_vec, tx_inserter, rx_inserter, inserter,
                             tx_deliverer>>
         [] pc = "drop_rx_inserter" ->
              /\ pc' = "drop_tx_deliverer"
              /\ rx_inserter' = FALSE
              /\ inserter' = IF StrongHolders = {} THEN <<>> ELSE inserter
              /\ UNCHANGED <<input_vec, tx_inserter, rx_deliverer, deliverer,
                             tx_deliverer>>
         [] pc = "drop_tx_deliverer" ->
              /\ pc' = "dropped"
              /\ tx_deliverer' = FALSE
              /\ UNCHANGED <<input_vec, tx_inserter, rx_deliverer, deliverer,
                             rx_inserter, inserter>>
    /\ UNCHANGED <<cfgVars, last_op, last_id, thread_vec, messages, message,
                   new_input, new_data, feed_left, lock, poisoned, workerVars,
                   histVars, auxVars>>

(***************************************************************************)
(* The Worker threads                                                      *)
(***************************************************************************)
\* an upgrade that yields a handle whether or not a strong Arc is left
WorkerUpgrade_dangling(w) ==
    /\ wstate[w] = "poll"
    /\ wstate' = [wstate EXCEPT ![w] = "upgraded"]
    /\ UNCHANGED <<cfgVars, callerVars, poolVars, feederVars, chanVars, wmsg,
                   histVars, auxVars>>

\* Worker::get_message: Weak::upgrade at the top of the loop
WorkerUpgrade(w) ==
    /\ wstate[w] = "poll"
    /\ wstate' = [wstate EXCEPT ![w] = IF ReceiverAlive
                                       THEN "upgraded"
                                       ELSE "none"]
    /\ UNCHANGED <<cfgVars, callerVars, poolVars, feederVars, chanVars, wmsg,
                   histVars, auxVars>>

\* try_lock that takes the Mutex whether or not another Worker holds it
WorkerTryLock_no_exclusion(w) ==
    /\ wstate[w] = "upgraded"
    /\ IF poisoned
       THEN /\ wstate' = [wstate EXCEPT ![w] = "panicked"]
            /\ inserter' = InserterAfterRelease(w, inserter)
            /\ UNCHANGED lock
       ELSE /\ lock' = w
            /\ wstate' = [wstate EXCEPT ![w] = "locked"]
            /\ UNCHANGED inserter
    /\ UNCHANGED <<cfgVars, callerVars, poolVars, feederVars, deliverer,
                   poisoned, wmsg, histVars, auxVars>>

\* Worker::get_message: try_lock. WouldBlock continues the loop, which drops
\* the strong Arc; Poisoned (the Mutex is free and poisoned) panics, which
\* ends the thread and drops the strong Arc.
WorkerTryLock(w) ==
    /\ wstate[w] = "upgraded"
    /\ IF lock = 0
       THEN IF poisoned
            THEN /\ wstate' = [wstate EXCEPT ![w] = "panicked"]
                 /\ inserter' = InserterAfterRelease(w, inserter)
                 /\ UNCHANGED lock
            ELSE /\ lock' = w
                 /\ wstate' = [wstate EXCEPT ![w] = "locked"]
                 /\ UNCHANGED inserter
       ELSE /\ wstate' = [wstate EXCEPT ![w] = "poll"]
            /\ inserter' = InserterAfterRelease(w, inserter)
            /\ UNCHANGED lock
    /\ UNCHANGED <<cfgVars, callerVars, poolVars, feederVars, deliverer,
                   poisoned, wmsg, histVars, auxVars>>

\* try_recv whose Ok arm returns the message with the MutexGuard still held
WorkerTryRecv_holding_guard(w) ==
    /\ wstate[w] = "locked"
    /\ IF inserter # <<>>
       THEN /\ wmsg' = [wmsg EXCEPT ![w] = Head(inserter)]
            /\ inserter' = Tail(inserter)
            /\ lock' = w
            /\ wstate' = [wstate EXCEPT ![w] = "working"]
            /\ handled' = [handled EXCEPT !.received =
                               @ (+) SetToBag({Head(inserter).input})]
       ELSE IF tx_inserter
            THEN /\ lock' = 0
                 /\ inserter' = InserterAfterRelease(w, inserter)
                 /\ wstate' = [wstate EXCEPT ![w] = "poll"]
                 /\ UNCHANGED <<wmsg, handled>>
            ELSE /\ wstate' = [wstate EXCEPT ![w] = "disconnected"]
                 /\ UNCHANGED <<lock, inserter, wmsg, handled>>
    /\ UNCHANGED <<cfgVars, callerVars, poolVars, feederVars, deliverer,
                   poisoned, histVars, borrowed_vec, call_backlog,
                   crash_seen>>

\* try_recv that returns a copy of the first message and leaves it in the
\* channel
WorkerTryRecv_copy(w) ==
    /\ wstate[w] = "locked"
    /\ IF inserter # <<>>
       THEN /\ wmsg' = [wmsg EXCEPT ![w] = Head(inserter)]
            /\ inserter' = InserterAfterRelease(w, inserter)
            /\ lock' = 0
            /\ wstate' = [wstate EXCEPT ![w] = "working"]
            /\ handled' = [handled EXCEPT !.received =
                               @ (+) SetToBag({Head(inserter).input})]
       ELSE IF tx_inserter
            THEN /\ lock' = 0
                 /\ inserter' = InserterAfterRelease(w, inserter)
                 /\ wstate' = [wstate EXCEPT ![w] = "poll"]
                 /\ UNCHANGED <<wmsg, handled>>
            ELSE /\ wstate' = [wstate EXCEPT ![w] = "disconnected"]
                 /\ UNCHANGED <<lock, inserter, wmsg, handled>>
    /\ UNCHANGED <<cfgVars, callerVars, poolVars, feederVars, deliverer,
                   poisoned, histVars, borrowed_vec, call_backlog,
                   crash_seen>>

\* Worker::get_message: try_recv under the lock. Ok returns the message and
\* Empty continues the loop, both dropping the guard and the strong Arc;
\* Disconnected goes to the arm that calls std::mem::drop(self).
\* get_message with recv() in place of try_recv(): the Worker waits for a
\* message with the guard held
WorkerTryRecv_blocking(w) ==
    /\ wstate[w] = "locked"
    /\ IF inserter # <<>>
       THEN /\ wmsg' = [wmsg EXCEPT ![w] = Head(inserter)]
            /\ inserter' = InserterAfterRelease(w, Tail(inserter))
            /\ lock' = 0
            /\ wstate' = [wstate EXCEPT ![w] = "working"]
            /\ handled' = [handled EXCEPT !.received =
                               @ (+) SetToBag({Head(inserter).input})]
       ELSE /\ ~tx_inserter
            /\ wstate' = [wstate EXCEPT ![w] = "disconnected"]
            /\ UNCHANGED <<lock, inserter, wmsg, handled>>
    /\ UNCHANGED <<cfgVars, callerVars, poolVars, feederVars, deliverer,
                   poisoned, histVars, borrowed_vec, call_backlog,
                   crash_seen>>

WorkerTryRecv(w) ==
    /\ wstate[w] = "locked"
    /\ IF inserter # <<>>
       THEN /\ wmsg' = [wmsg EXCEPT ![w] = Head(inserter)]
            /\ inserter' = InserterAfterRelease(w, Tail(inserter))
            /\ lock' = 0
            /\ wstate' = [wstate EXCEPT ![w] = "working"]
            /\ handled' = [handled EXCEPT !.received =
                               @ (+) SetToBag({Head(inserter).input})]
       ELSE IF tx_inserter
            THEN /\ lock' = 0
                 /\ inserter' = InserterAfterRelease(w, inserter)
                 /\ wstate' = [wstate EXCEPT ![w] = "poll"]
                 /\ UNCHANGED <<wmsg, handled>>
            ELSE /\ wstate' = [wstate EXCEPT ![w] = "disconnected"]
                 /\ UNCHANGED <<lock, inserter, wmsg, handled>>
    /\ UNCHANGED <<cfgVars, callerVars, poolVars, feederVars, deliverer,
                   poisoned, histVars, borrowed_vec, call_backlog,
                   crash_seen>>

\* Worker::get_message: the arms for a disconnected channel and for an expired
\* Weak. self is &Worker there, so std::mem::drop(self) drops a copy of the
\* reference: the Worker is untouched and the loop goes round again.
WorkerDropSelf(w) ==
    /\ wstate[w] \in {"disconnected", "none"}
    /\ wstate' = [wstate EXCEPT ![w] = "poll"]
    /\ IF wstate[w] = "disconnected"
       THEN /\ lock' = 0
            /\ inserter' = InserterAfterRelease(w, inserter)
       ELSE UNCHANGED <<lock, inserter>>
    /\ UNCHANGED <<cfgVars, callerVars, poolVars, feederVars, deliverer,
                   poisoned, wmsg, histVars, auxVars>>

\* Worker::run: message.work()
WorkerWork(w) ==
    /\ wstate[w] = "working"
    /\ wmsg' = [wmsg EXCEPT ![w] = work(wmsg[w])]
    /\ wstate' = [wstate EXCEPT ![w] = "sending"]
    /\ handled' = [handled EXCEPT !.worked = @ (+) SetToBag({wmsg[w].input})]
    /\ UNCHANGED <<cfgVars, callerVars, poolVars, feederVars, chanVars,
                   histVars, borrowed_vec, call_backlog, crash_seen>>

\* Worker::send_message: one try_send on the deliverer channel. Full yields and
\* tries again (the step is not taken); Disconnected panics, which ends the
\* thread.
\* send_message that panics on every Err of try_send, Full included
WorkerSend_full_panics(w) ==
    /\ wstate[w] = "sending"
    /\ IF ~rx_deliverer \/ Len(deliverer) >= channel_size
       THEN /\ wstate' = [wstate EXCEPT ![w] = "panicked"]
            /\ UNCHANGED <<deliverer, handled>>
       ELSE /\ deliverer' = Append(deliverer, wmsg[w])
            /\ wstate' = [wstate EXCEPT ![w] = "poll"]
            /\ handled' = [handled EXCEPT !.delivered =
                               @ (+) SetToBag({wmsg[w].input})]
    /\ wmsg' = [wmsg EXCEPT ![w] = new_message]
    /\ UNCHANGED <<cfgVars, callerVars, poolVars, feederVars, inserter, lock,
                   poisoned, histVars, borrowed_vec, call_backlog,
                   crash_seen>>

WorkerSend(w) ==
    /\ wstate[w] = "sending"
    /\ IF ~rx_deliverer
       THEN /\ wstate' = [wstate EXCEPT ![w] = "panicked"]
            /\ UNCHANGED <<deliverer, handled>>
       ELSE /\ Len(deliverer) < channel_size
            /\ deliverer' = Append(deliverer, wmsg[w])
            /\ wstate' = [wstate EXCEPT ![w] = "poll"]
            /\ handled' = [handled EXCEPT !.delivered =
                               @ (+) SetToBag({wmsg[w].input})]
    /\ wmsg' = [wmsg EXCEPT ![w] = new_message]
    /\ UNCHANGED <<cfgVars, callerVars, poolVars, feederVars, inserter, lock,
                   poisoned, histVars, borrowed_vec, call_backlog,
                   crash_seen>>

\* Worker::run: message.work() panics (a failure of the caller's
\* transformation). The panic ends the thread and drops the message it holds;
\* a MutexGuard the thread held would be released and leave the Mutex poisoned.
\* a work() panic that leaves the Mutex of rx_inserter poisoned
WorkerPanic_poisons(w) ==
    /\ wstate[w] = "working"
    /\ wstate' = [wstate EXCEPT ![w] = "panicked"]
    /\ wmsg' = [wmsg EXCEPT ![w] = new_message]
    /\ poisoned' = TRUE
    /\ lock' = IF lock = w THEN 0 ELSE lock
    /\ UNCHANGED <<cfgVars, callerVars, poolVars, feederVars, inserter,
                   deliverer, histVars, auxVars>>

WorkerPanic(w) ==
    /\ wstate[w] = "working"
    /\ wstate' = [wstate EXCEPT ![w] = "panicked"]
    /\ wmsg' = [wmsg EXCEPT ![w] = new_message]
    /\ poisoned' = (poisoned \/ lock = w)
    /\ lock' = IF lock = w THEN 0 ELSE lock
    /\ UNCHANGED <<cfgVars, callerVars, poolVars, feederVars, inserter,
                   deliverer, histVars, auxVars>>

(***************************************************************************)
(* Specifications                                                          *)
(***************************************************************************)
\* the ChannelConfigs a DeliveryService is built from in Spec: those the
\* setters reach without overflow, within the bounds
PoolConfigs ==
    {[stack_size |-> DefaultStackSize, worker_number |-> w,
      channel_size |-> w, package_number |-> p] :
        w \in 1 .. MaxWorkers, p \in 1 .. MaxPackages}

\* DeliveryService::new and FeederRecycler::new
PoolNew ==
    /\ last_op = "new"
    /\ last_id = 0
    /\ thread_vec = <<>>
    /\ rx_inserter = TRUE
    /\ tx_deliverer = TRUE
    /\ messages = 0
    /\ input_vec = <<>>
    /\ tx_inserter = TRUE
    /\ rx_deliverer = TRUE
    /\ message = new_message
    /\ new_input = 0
    /\ new_data = 0
    /\ feed_left = 0
    /\ inserter = <<>>
    /\ deliverer = <<>>
    /\ lock = 0
    /\ poisoned = FALSE
    /\ wstate = [w \in Workers |-> "unspawned"]
    /\ wmsg = [w \in Workers |-> new_message]
    /\ fed = 0
    /\ results = EmptyBag
    /\ constructed = 0
    /\ eos = <<>>
    /\ borrowed_vec = <<>>
    /\ call_backlog = <<>>
    /\ handled = [sent |-> EmptyBag, received |-> EmptyBag,
                  worked |-> EmptyBag, delivered |-> EmptyBag]
    /\ crash_seen = FALSE

Init ==
    /\ cfg \in {c \in PoolConfigs : c.package_number > c.worker_number}
    /\ cfg_call = <<"default">>
    /\ cfg_result = "ok"
    /\ overflow_checks = FALSE
    /\ pc = "idle"
    /\ PoolNew

WorkerStep(w) ==
    \/ WorkerUpgrade(w)
    \/ WorkerTryLock(w)
    \/ WorkerTryRecv(w)
    \/ WorkerDropSelf(w)
    \/ WorkerWork(w)
    \/ WorkerSend(w)

Next ==
    \/ \E n \in 0 .. MaxFeed : FeedFeeder(n)
    \/ NextCall
    \/ FeederSend
    \/ FeederGet
    \/ DropBegin
    \/ DropTryLock
    \/ DropFields
    \/ \E w \in Workers : WorkerStep(w)

Spec == Init /\ [][Next]_vars

\* every thread that can take a step is scheduled; the caller is not obliged
\* to call feed_feeder, next or drop
Fairness ==
    /\ WF_vars(FeederSend)
    /\ WF_vars(FeederGet)
    /\ WF_vars(DropTryLock)
    /\ WF_vars(DropFields)
    /\ \A w \in Workers : WF_vars(WorkerStep(w))

FairSpec == Init /\ [][Next]_vars /\ Fairness

\* SpecSingleFeed: Spec where the caller feeds the pool once, with a vector
\* that is not empty, before any message exists
FeedOnce ==
    /\ fed = 0
    /\ \E n \in 1 .. MaxFeed : FeedFeeder(n)

NextSingleFeed ==
    \/ FeedOnce
    \/ NextCall
    \/ FeederSend
    \/ FeederGet
    \/ DropBegin
    \/ DropTryLock
    \/ DropFields
    \/ \E w \in Workers : WorkerStep(w)

SpecSingleFeed == Init /\ [][NextSingleFeed]_vars

\* SpecTeardown: the caller feeds the pool once, calls next() for a first
\* result, and drops the pool at any time outside a call; the Workers
\* then poll, contend for the Mutex, work and send while drop() runs.
\* FairTeardown schedules every thread, with a try_lock of the drop loop
\* that succeeds if the Mutex is free again and again: the loop spins on
\* try_lock, and every Worker calls yield_now() before each try_lock of its
\* own, so an attempt of the loop falls into a moment where the Mutex is
\* free unless every such moment is missed
StrongFairness ==
    /\ WF_vars(FeederSend)
    /\ WF_vars(FeederGet)
    /\ SF_vars(DropTryLock)
    /\ WF_vars(DropFields)
    /\ \A w \in Workers : WF_vars(WorkerStep(w))

FirstCall ==
    /\ results = EmptyBag
    /\ NextCall

NextTeardown ==
    \/ FeedOnce
    \/ FirstCall
    \/ FeederSend
    \/ FeederGet
    \/ DropBegin
    \/ DropTryLock
    \/ DropFields
    \/ \E w \in Workers : WorkerStep(w)

FairTeardown == Init /\ [][NextTeardown]_vars /\ StrongFairness

\* the same with the weak fairness of FairSpec: a try_lock that may miss
\* every moment in which the Mutex is free
WeakTeardown == Init /\ [][NextTeardown]_vars /\ Fairness

\* FairAdvance: the caller feeds the pool whenever it has taken every input
\* of the last feed (messages of it may still be in flight), calls next(),
\* and never drops the pool; every thread that can take a step is scheduled
FeedMore ==
    /\ input_vec = <<>>
    /\ fed = 0 \/ messages > 0
    /\ \E n \in 1 .. MaxFeed : FeedFeeder(n)

WorkerLoop(w) ==
    \/ WorkerUpgrade(w)
    \/ WorkerTryLock(w)
    \/ WorkerTryRecv(w)
    \/ WorkerWork(w)
    \/ WorkerSend(w)

NextAdvance ==
    \/ FeedMore
    \/ NextCall
    \/ FeederSend
    \/ FeederGet
    \/ \E w \in Workers : WorkerLoop(w)

FairAdvance ==
    /\ Init
    /\ [][NextAdvance]_vars
    /\ WF_vars(FeederSend \/ FeederGet)
    /\ \A w \in Workers : WF_vars(WorkerLoop(w))

\* SpecLongFeed: the caller feeds the pool once, with three inputs more than
\* package_number, and calls next(): the least feed after which a call that
\* recycles a message (the second call) returns with inputs left
FeedLong ==
    /\ pc = "idle"
    /\ fed = 0
    /\ LET n == package_number + 3
           r == append_input(input_vec, [i \in 1 .. n |-> i])
       IN  /\ input_vec' = r.input_vec
           /\ borrowed_vec' = r.other
           /\ fed' = n
    /\ last_op' = "feed"
    /\ UNCHANGED <<cfgVars, pc, poolVars, messages, tx_inserter, rx_deliverer,
                   message, new_input, new_data, feed_left, chanVars,
                   workerVars, results, constructed, eos, call_backlog,
                   handled, crash_seen>>

NextLongFeed ==
    \/ FeedLong
    \/ NextCall
    \/ FeederSend
    \/ FeederGet
    \/ \E w \in Workers : WorkerLoop(w)

SpecLongFeed == Init /\ [][NextLongFeed]_vars

\* SpecFail: the caller's transformation may fail in any Worker while the
\* pool lives, and the caller drops the pool only after a failure (Spec has
\* the drops of a pool without one)
DropAfterFailure ==
    /\ \E w \in Workers : wstate[w] = "panicked"
    /\ DropBegin

NextFail ==
    \/ \E n \in 0 .. MaxFeed : FeedFeeder(n)
    \/ NextCall
    \/ FeederSend
    \/ FeederGet
    \/ DropAfterFailure
    \/ DropTryLock
    \/ DropFields
    \/ \E w \in Workers : WorkerStep(w)
    \/ \E w \in Workers : WorkerPanic(w)

SpecFail == Init /\ [][NextFail]_vars

(***************************************************************************)
(* SpecConfig: a caller of ChannelConfig's setters. No DeliveryService is  *)
(* built (pc = "config"); a caller that catches a setter's panic goes on   *)
(* calling.                                                                *)
(***************************************************************************)
SetConfig(call, r) ==
    /\ pc = "config"
    /\ cfg' = r.cfg
    /\ cfg_result' = r.result
    /\ cfg_call' = call
    /\ UNCHANGED <<overflow_checks, callerVars, poolVars, feederVars,
                   chanVars, workerVars, histVars, auxVars>>

SetWorkerNumber(n) ==
    SetConfig(<<"set_worker_number", n>>,
              set_worker_number(cfg, n, overflow_checks))

SetPackageNumber(n) ==
    SetConfig(<<"set_package_number", n>>, set_package_number(cfg, n))

SetStackSize(n) ==
    SetConfig(<<"set_stack_size", n>>, set_stack_size(cfg, n))

InitConfig ==
    /\ cfg = ChannelConfigDefault
    /\ cfg_call = <<"default">>
    /\ cfg_result = "ok"
    /\ overflow_checks \in BOOLEAN
    /\ pc = "config"
    /\ PoolNew

NextConfig ==
    \/ \E n \in Usize : SetWorkerNumber(n)
    \/ \E n \in Usize : SetPackageNumber(n)
    \/ \E n \in StackSizes : SetStackSize(n)

SpecConfig == InitConfig /\ [][NextConfig]_vars

(***************************************************************************)
(* Properties                                                              *)
(***************************************************************************)
\* the Worker states inside the loop of Worker::run
Looping ==
    {"poll", "upgraded", "locked", "disconnected", "none", "working",
     "sending"}

\* Worker::run and Worker::get_message have no break and no return out of
\* run: a Worker thread ends by a panic only
Terminated == {"panicked"}

Spawned == {w \in Workers : wstate[w] # "unspawned"}

\* C1. Conservation: whenever next() has returned None, the data returned so
\* far are exactly the inputs fed so far, each once; and at no time has
\* next() returned anything but the data of a fed input, at most once each.
C1_Conservation ==
    /\ \A d \in BagToSet(results) : d \in 1 .. fed /\ CopiesIn(d, results) = 1
    /\ (pc = "idle" /\ last_op = "next:None") => results = SetToBag(1 .. fed)

\* two workers have drained three inputs or more to the end of the sequence
C1_Witness ==
    /\ pc = "idle"
    /\ last_op = "next:None"
    /\ fed >= 3
    /\ worker_number = 2
    /\ BagCardinality(results) = fed

\* C2. Drain terminates: while next() is running some thread can take a step
\* that changes the state, i.e. the caller's thread and the Workers never all
\* spin on a full or an empty channel at once.
C2_DrainTerminates == pc \in NextPcs => ENABLED Next

\* C3. Bounded in-flight: messages never exceeds package_number.
C3_BoundedInFlight == messages <= package_number

\* next() is running with the budget in full use
C3_Witness == pc \in GetPcs /\ messages = package_number /\ input_vec # <<>>

\* C4. Between calls, len() = messages + input_vec.len() is the number of
\* results still to come: inputs fed less results returned. So a feed_feeder
\* of n inputs raises it by n and a next() that returns Some lowers it by 1.
C4_RemainingCountsResults ==
    pc = "idle" => get_remaining_messages = fed - BagCardinality(results)

\* next() has returned Some while messages are in flight and inputs wait
C4_Witness ==
    /\ pc = "idle"
    /\ last_op = "next:Some"
    /\ messages > 0
    /\ input_vec # <<>>

\* C5. next() returns None exactly when it is called with input_vec empty and
\* messages = 0; it returns None only at once, and then leaves input_vec,
\* messages and both channels as they are.
C5_EndOfSequence ==
    [][/\ (pc = "idle" /\ pc' = "idle" /\ last_op' = "next:None")
             => /\ input_vec = <<>>
                /\ messages = 0
                /\ UNCHANGED <<input_vec, messages, inserter, deliverer>>
       /\ (pc = "idle" /\ pc' \in NextPcs)
             => ~(input_vec = <<>> /\ messages = 0)
       /\ (last_op' = "next:None" /\ last_op # "next:None") => pc = "idle"
      ]_vars

\* the first next() of a pool that was fed nothing has returned None
C5_Witness ==
    /\ last_op = "next:None"
    /\ fed = 0
    /\ Len(thread_vec) = worker_number

\* C6. Reusability: every drain to the end of the sequence has returned as
\* many results as were fed since the drain before it; and from the first
\* next() on, as long as the pool is not dropped, the threads are the
\* worker_number threads spawned then, all of them inside Worker::run's loop.
C6_Reusability ==
    /\ \A i \in 1 .. Len(eos) :
          LET before == IF i = 1 THEN <<0, 0>> ELSE eos[i - 1]
          IN  eos[i][2] - before[2] = eos[i][1] - before[1]
    /\ (thread_vec # <<>> /\ pc \notin DropPcs)
          => /\ thread_vec = [i \in 1 .. worker_number |-> i]
             /\ last_id = worker_number
             /\ \A w \in 1 .. worker_number : wstate[w] \in Looping

\* a second batch has been drained to the end of the sequence
C6_Witness ==
    /\ pc = "idle"
    /\ last_op = "next:None"
    /\ Len(eos) >= 2
    /\ eos[2][1] - eos[1][1] >= 2

\* C7. Graceful teardown, liveness: once the pool is dropped every spawned
\* Worker thread eventually ends; and a Worker that leaves the arm for an
\* expired Weak or the arm for a disconnected channel leaves the loop.
C7_GracefulTeardown ==
    /\ (pc = "dropped") ~> (\A w \in Spawned : wstate[w] \in Terminated)
    /\ [][\A w \in Workers :
            (wstate[w] \in {"none", "disconnected"} /\ wstate'[w] # wstate[w])
               => wstate'[w] \notin Looping]_vars

\* C8. Shutdown ordering: the deliverer channel's Receiver is not dropped
\* while a Worker is working or sending, and no Worker panics.
C8_ShutdownOrdering ==
    /\ ~rx_deliverer => \A w \in Workers : wstate[w] \notin {"working", "sending"}
    /\ \A w \in Workers : wstate[w] # "panicked"

\* C9. Configuration invariant: worker_number >= 1 and package_number >
\* worker_number after any setter calls; set_worker_number(n) with n < 1 and
\* set_package_number(n) with n <= worker_number fail; a setter that fails
\* leaves the four fields as they were.
C9_ConfigInvariant ==
    /\ [](cfg.worker_number >= 1 /\ cfg.package_number > cfg.worker_number)
    /\ [][/\ (cfg_call'[1] = "set_worker_number" /\ cfg_call'[2] < 1)
                => cfg_result' = "panic"
          /\ (cfg_call'[1] = "set_package_number"
                /\ cfg_call'[2] <= cfg.worker_number)
                => cfg_result' = "panic"
          /\ cfg_result' = "panic" => cfg' = cfg
         ]_cfgVars

\* C10. A set_worker_number(w) that succeeds sets channel_size = w and
\* package_number = 2*w and leaves stack_size; channel_size = worker_number
\* always; set_package_number and set_stack_size change their own field only.
C10_SetterFrames ==
    /\ [](cfg.channel_size = cfg.worker_number)
    /\ [][/\ (cfg_call'[1] = "set_worker_number" /\ cfg_result' = "ok")
                => /\ cfg'.worker_number = cfg_call'[2]
                   /\ cfg'.channel_size = cfg_call'[2]
                   /\ cfg'.package_number = 2 * cfg_call'[2]
                   /\ cfg'.stack_size = cfg.stack_size
          /\ cfg_call'[1] = "set_package_number"
                => cfg' = [cfg EXCEPT !.package_number = cfg'.package_number]
          /\ cfg_call'[1] = "set_stack_size"
                => cfg' = [cfg EXCEPT !.stack_size = cfg'.stack_size]
         ]_cfgVars


\* C11. Worker population: the new pool has no thread and feed_feeder spawns
\* none; whenever a next() has returned, Some or None, exactly worker_number
\* threads have been spawned, with the ids 1 .. worker_number in spawn order;
\* there are never more, the ids increase strictly, and a spawned thread keeps
\* its place and id in thread_vec (no id is given twice).
C11_WorkerPopulation ==
    /\ [](/\ last_op = "new" => thread_vec = <<>>
          /\ last_op \in {"next:Some", "next:None"}
                => /\ thread_vec = [i \in 1 .. worker_number |-> i]
                   /\ last_id = worker_number
          /\ Len(thread_vec) <= worker_number
          /\ \A i, j \in 1 .. Len(thread_vec) :
                i < j => thread_vec[i] < thread_vec[j])
    /\ [][/\ fed' # fed => thread_vec' = thread_vec /\ last_id' = last_id
          /\ Len(thread_vec') >= Len(thread_vec)
          /\ \A i \in 1 .. Len(thread_vec) : thread_vec'[i] = thread_vec[i]
          /\ \A i \in (Len(thread_vec) + 1) .. Len(thread_vec') :
                thread_vec'[i] > last_id]_vars

\* a next() has returned None on a pool of two Workers that was fed before
C11_Witness ==
    /\ last_op = "next:None"
    /\ fed > 0
    /\ Len(thread_vec) = 2

\* the Worker threads that are running
Alive == {w \in Workers : wstate[w] \in Looping}

\* C12 (as claimed). Re-spawn after a crash: a next() called when a Worker
\* thread has ended spawns replacements, so that worker_number Workers are
\* running once build_workers, the first thing the call does, is done.
C12_RespawnAfterCrash ==
    [][(pc = "idle" /\ pc' \in NextPcs
          /\ \E w \in Workers : wstate[w] = "panicked")
         => Cardinality({w \in Workers : wstate'[w] \in Looping})
               = worker_number]_vars

\* C12 (amended). No re-spawn after a crash: a next() called when a Worker
\* thread has ended spawns nothing, thread_vec being as long as worker_number
\* already; from that call on fewer than worker_number Workers are running
\* and the ids stay 1 .. worker_number.
C12_NoRespawnAfterCrash ==
    /\ [](crash_seen => /\ Cardinality(Alive) < worker_number
                        /\ thread_vec = [i \in 1 .. worker_number |-> i]
                        /\ last_id = worker_number)
    /\ [][(pc = "idle" /\ pc' \in NextPcs
             /\ \E w \in Workers : wstate[w] = "panicked")
            => /\ thread_vec' = thread_vec
               /\ last_id' = last_id
               /\ \A w \in Workers :
                     wstate[w] = "panicked" => wstate'[w] = "panicked"]_vars

\* a next() called after a Worker's message.work() panicked is running, the
\* pool not dropped
C12_Witness ==
    /\ crash_seen
    /\ pc \in NextPcs
    /\ rx_deliverer
    /\ \E w \in Workers : wstate[w] = "panicked"

\* C13. feed_feeder's frame: a feed_feeder of n inputs appends them in their
\* order to the end of input_vec and leaves the caller's vector empty; it
\* changes nothing else (messages, both channels, the Mutex, the threads and
\* what they hold, the results: nothing is sent); and it does not wait: it
\* is one step that the caller can take whenever no other call is running.
C13_FeedFrame ==
    /\ [][(fed' # fed \/ (last_op' = "feed" /\ last_op # "feed"))
            => /\ input_vec' = input_vec \o [i \in 1 .. (fed' - fed) |-> fed + i]
               /\ borrowed_vec' = <<>>
               /\ pc = "idle" /\ pc' = "idle"
               /\ UNCHANGED <<messages, message, new_input, new_data,
                              feed_left, tx_inserter, rx_deliverer, poolVars,
                              chanVars, workerVars, results, constructed, eos,
                              handled, call_backlog>>]_vars
    /\ [](pc = "idle" => \A n \in 0 .. (MaxFeed - fed) : ENABLED FeedFeeder(n))

\* inputs were fed while messages were with the Workers and results waiting
C13_Witness ==
    /\ last_op = "feed"
    /\ Len(input_vec) >= 2
    /\ messages > 0
    /\ deliverer # <<>>
    /\ results # EmptyBag

\* the inputs waiting in input_vec
Backlog == {input_vec[i] : i \in 1 .. Len(input_vec)}

\* C14. Workers start on feed: once feed_feeder has left inputs in
\* input_vec of a pool whose Worker threads are running, a Worker eventually
\* works a message that carries one of them, whether or not the caller calls
\* next(), unless the caller drops the pool.
C14_WorkersStartOnFeed ==
    \A S \in SUBSET (1 .. MaxFeed) \ {{}} :
        (last_op = "feed" /\ Backlog = S /\ Spawned # {})
            ~> (\/ \E i \in S : CopiesIn(i, handled.worked) > 0
                \/ pc \in DropPcs)

\* the feeder has sent a message with the input i to the Workers
Sent(i) == CopiesIn(i, handled.sent) > 0

\* this step sends a message with the input i to the Workers
Sends(i) == CopiesIn(i, handled'.sent) > CopiesIn(i, handled.sent)

\* C15 (as claimed). Last fed, first sent: when a message with an input is
\* sent to the Workers, every input that was nearer the end of input_vec
\* when the running next() was called has been sent before. (Two inputs that
\* are in input_vec at the same time are both there when the next() that
\* pops the first of them is called, or the one nearer the end was popped
\* and sent by an earlier next().)
C15_LastFedFirstSent ==
    [][\A i, j \in 1 .. Len(call_backlog) :
          (i < j /\ Sends(call_backlog[i])) => Sent(call_backlog[j])]_vars

\* C15 (amended). Last fed, first popped: during a next() input_vec is what
\* is left of the inputs it held at the call after pops from the end, and
\* every popped input has been sent, is in the message about to be sent, or
\* is held in new_input. The inputs are sent in the order they are popped,
\* but for the one that the fourth case of retrieve_data pops first and
\* holds in new_input: the inputs its feed_initial_messages pops are sent
\* before it, and it is sent last, after the get_message.
C15_LastFedFirstPopped ==
    /\ [](pc \in NextPcs
            => /\ Len(input_vec) <= Len(call_backlog)
               /\ input_vec = SubSeq(call_backlog, 1, Len(input_vec))
               /\ \A j \in (Len(input_vec) + 1) .. Len(call_backlog) :
                     \/ Sent(call_backlog[j])
                     \/ call_backlog[j] = message.input
                     \/ call_backlog[j] = new_input)
    /\ [][\A i, j \in 1 .. Len(call_backlog) :
            (i < j /\ Sends(call_backlog[i]))
               => \/ Sent(call_backlog[j])
                  \/ /\ pc = "c4_feed"
                     /\ j = Len(call_backlog)
                     /\ new_input = call_backlog[j]]_vars
    /\ [][(pc = "c4_send" /\ handled'.sent # handled.sent)
            => Sends(Last(call_backlog))]_vars

\* the fourth case has sent an input popped by its feed_initial_messages
\* while it holds the input it popped first
C15_Witness ==
    /\ pc \in {"c4_feed", "c4_get"}
    /\ new_input # 0
    /\ \E i \in 1 .. Len(call_backlog) :
          Sent(call_backlog[i]) /\ call_backlog[i] < new_input

\* C16. Recycling efficiency: when the pool is fed once, with N >=
\* package_number inputs, no more than package_number + 1 messages are ever
\* constructed; when next() returns None after all the results, the number
\* constructed is package_number + 1 for every N > package_number (and
\* package_number for N = package_number): it does not grow with N.
C16_RecyclingEfficiency ==
    fed >= package_number
       => /\ constructed <= package_number + 1
          /\ last_op = "next:None"
                => constructed = IF fed > package_number
                                 THEN package_number + 1
                                 ELSE package_number

\* a single feed of two inputs more than package_number has been drained to
\* the end of the sequence
C16_Witness ==
    /\ last_op = "next:None"
    /\ fed = package_number + 2
    /\ BagCardinality(results) = fed

\* the fourth case of retrieve_data: the places of a next() called with
\* inputs waiting and messages > 0
Case4Pcs == {"c4_feed", "c4_get", "c4_send"}

\* this step is the call of a next() that takes the fourth case
Case4Call == pc = "idle" /\ pc' \in Case4Pcs

\* the message about to be sent is the one just received from the Workers,
\* still carrying the data just cloned for the caller, with the input popped
\* at the start of the call set into it
Recycled ==
    /\ new_data # 0
    /\ message.data = new_data
    /\ message.input = Last(call_backlog)

\* C17 (as claimed). Recycling: no step of a next() that takes the fourth
\* case (inputs waiting, messages > 0) constructs a message, and the message
\* it sends last is the one it just received, with the popped input set.
C17_NoFreshInCase4 ==
    /\ [][(Case4Call \/ pc \in Case4Pcs) => constructed' = constructed]_vars
    /\ [](pc = "c4_send" => Recycled)

\* C17 (amended). Recycling: a next() that takes the fourth case with
\* messages = package_number constructs no message; one that takes it with
\* messages < package_number constructs one message for each input its
\* feed_initial_messages sends, while messages < package_number, and none
\* otherwise. In both, the message it sends last is the one it just
\* received, with the popped input set.
C17_FreshOnlyUnderBudget ==
    /\ [][(Case4Call /\ messages = package_number)
            => pc' = "c4_get" /\ constructed' = constructed]_vars
    /\ [][((Case4Call \/ pc \in Case4Pcs) /\ constructed' # constructed)
            => /\ pc' = "c4_feed"
               /\ messages' < package_number
               /\ constructed' = constructed + 1
               /\ message' = set_input(new_message,
                                       call_backlog'[Len(input_vec') + 1])]_vars
    /\ [](pc = "c4_send" => Recycled)

\* the fourth case, having topped up, is about to send back the message it
\* received
C17_Witness ==
    /\ pc = "c4_send"
    /\ Recycled
    /\ \E i \in 1 .. Len(call_backlog) - 1 : Sent(call_backlog[i])

\* the number of places of q that hold a message with the input i
InQueue(q, i) == Cardinality({k \in 1 .. Len(q) : q[k].input = i})

\* the number of places where the input i is: waiting in input_vec, held by
\* the feeder (popped, or in the message it is about to send), in the
\* inserter channel, with a Worker, in the deliverer channel, cloned as data
\* for the caller, or returned to the caller
Copies(i) ==
    Cardinality({k \in 1 .. Len(input_vec) : input_vec[k] = i})
    + (IF new_input = i THEN 1 ELSE 0)
    + (IF pc \in SendPcs /\ message.input = i THEN 1 ELSE 0)
    + InQueue(inserter, i)
    + Cardinality({w \in Workers :
                      wstate[w] \in {"working", "sending"} /\ wmsg[w].input = i})
    + InQueue(deliverer, i)
    + (IF new_data = i THEN 1 ELSE 0)
    + CopiesIn(i, results)

\* C18. Exactly-once processing: a message with a given input is sent to the
\* Workers at most once, received by a Worker at most once, worked at most
\* once and delivered at most once, in that order; as long as the pool is
\* not dropped every fed input is in exactly one place (clone and send never
\* leave two live copies); a delivered message carries the data worked from
\* its input; and when next() returns None every fed input has been sent,
\* received, worked and delivered exactly once and the results are the fed
\* inputs, each once.
C18_ExactlyOnce ==
    /\ \A i \in 1 .. MaxFeed :
          /\ CopiesIn(i, handled.delivered) <= CopiesIn(i, handled.worked)
          /\ CopiesIn(i, handled.worked) <= CopiesIn(i, handled.received)
          /\ CopiesIn(i, handled.received) <= CopiesIn(i, handled.sent)
          /\ CopiesIn(i, handled.sent) <= 1
          /\ i > fed => CopiesIn(i, handled.sent) = 0
    /\ pc \notin DropPcs => \A i \in 1 .. fed : Copies(i) = 1
    /\ \A k \in 1 .. Len(deliverer) :
          /\ deliverer[k].data = deliverer[k].input
          /\ CopiesIn(deliverer[k].input, handled.delivered) = 1
    /\ last_op = "next:None"
          => /\ \A i \in 1 .. fed :
                   /\ CopiesIn(i, handled.sent) = 1
                   /\ CopiesIn(i, handled.received) = 1
                   /\ CopiesIn(i, handled.worked) = 1
                   /\ CopiesIn(i, handled.delivered) = 1
             /\ results = SetToBag(1 .. fed)

\* next() has returned None after MaxFeed inputs were fed to a pool of two
\* Workers and worked
C18_Witness ==
    /\ last_op = "next:None"
    /\ fed = MaxFeed
    /\ worker_number = 2
    /\ BagCardinality(handled.worked) = MaxFeed
    /\ BagCardinality(results) = MaxFeed

\* a Worker's message.work() has panicked: a Worker thread has ended while
\* the deliverer channel still has its Receiver (a send cannot have failed)
WorkFailed == rx_deliverer /\ \E w \in Workers : wstate[w] = "panicked"

\* C19 (as claimed). A failed message.work() poisons the Mutex of the
\* inserter channel's Receiver: the next Worker whose try_lock finds the
\* Mutex free gets Poisoned and panics, and the try_lock of the pool's Drop
\* finds the Mutex poisoned.
C19_FailurePoisonsLock ==
    /\ [](WorkFailed => poisoned)
    /\ [][\A w \in Workers :
            (WorkFailed /\ wstate[w] = "upgraded" /\ lock = 0
               /\ wstate'[w] # wstate[w])
                  => wstate'[w] = "panicked"]_vars
    /\ [](WorkFailed /\ pc = "drop_lock" => poisoned)

\* C19 (amended). A failed message.work() does not poison the Mutex: no
\* Worker holds the MutexGuard while it works or sends, so the Mutex is never
\* poisoned; a Worker whose try_lock finds the Mutex free locks it, also
\* after a failure; the try_lock of the pool's Drop that finds it free gets
\* Ok; and a Worker thread ends only by its own message.work() failing or by
\* its send finding the deliverer channel disconnected.
C19_FailureLeavesLockSound ==
    /\ [](/\ ~poisoned
          /\ \A w \in Workers :
                wstate[w] \in {"working", "sending", "panicked"} => lock # w
          /\ (pc = "drop_lock" /\ lock = 0) => ENABLED DropTryLock)
    /\ [][\A w \in Workers :
            /\ (wstate[w] = "upgraded" /\ lock = 0 /\ wstate'[w] # wstate[w])
                  => wstate'[w] = "locked" /\ lock' = w
            /\ (wstate'[w] = "panicked" /\ wstate[w] # "panicked")
                  => \/ wstate[w] = "working"
                     \/ wstate[w] = "sending" /\ ~rx_deliverer]_vars

\* after a Worker's message.work() failed, another Worker has locked the
\* Mutex and received a message sent by a next() called after the failure
C19_Witness ==
    /\ crash_seen
    /\ WorkFailed
    /\ \E v \in Workers :
          /\ wstate[v] = "working"
          /\ \E k \in 1 .. Len(call_backlog) : wmsg[v].input = call_backlog[k]

\* the messages that exist outside the feeder: in the two channels and with
\* the Workers
Held ==
    Len(inserter) + Len(deliverer)
    + Cardinality({w \in Workers : wstate[w] \in {"working", "sending"}})

\* the feeder waits in get_message and no message is left to come
WaitsForLost == WorkFailed /\ pc \in GetPcs /\ Held = 0

\* C20. Lost message: once a Worker's message.work() has failed, as long as
\* the pool is not dropped, the message it held exists nowhere but is still
\* counted: messages exceeds the messages that exist, so messages >= 1;
\* next() has not returned None since and the caller's thread has not
\* panicked. And once the messages that are left have been collected, a
\* next() that waits in get_message waits for ever: its try_recv finds the
\* channel empty and not disconnected, and no step of any thread changes
\* that, returns a result, or changes messages.
C20_LostEnvelope ==
    /\ [](WorkFailed => /\ messages >= Held + 1
                        /\ last_op # "next:None"
                        /\ pc # "panicked")
    /\ [](WaitsForLost => ~ENABLED FeederGet)
    /\ [][WaitsForLost
            => /\ WaitsForLost'
               /\ UNCHANGED <<pc, last_op, messages, results, eos>>]_vars

\* a Worker's message.work() has failed, the results of the other messages
\* have been returned, and next() waits in get_message for the lost one
C20_Witness ==
    /\ WaitsForLost
    /\ results # EmptyBag
    /\ messages = 1


\* the Workers inside the arm of get_message that holds the MutexGuard
GuardHolders == {w \in Workers : wstate[w] \in {"locked", "disconnected"}}

\* C21. Mutual exclusion on the inserter channel's Receiver: at most one
\* Worker is inside the arm that holds the MutexGuard, and it is the one the
\* Mutex is locked by; no Worker holds the guard while it works or sends;
\* and a Worker receives a message only in a step that starts with the guard
\* held by it and ends with the guard released and the Worker working.
C21_MutualExclusion ==
    /\ [](/\ Cardinality(GuardHolders) <= 1
          /\ \A w \in Workers : w \in GuardHolders <=> lock = w
          /\ \A w \in Workers :
                wstate[w] \in {"working", "sending"} => lock # w)
    /\ [][handled'.received # handled.received
            => \E w \in Workers :
                  /\ lock = w /\ wstate[w] = "locked"
                  /\ inserter # <<>> /\ wmsg'[w] = Head(inserter)
                  /\ lock' = 0 /\ wstate'[w] = "working"]_vars

\* one Worker holds the guard with a message to receive while another works
\* and a third party, the next try_lock, would find the Mutex locked
C21_Witness ==
    \E w, v \in Workers :
        /\ wstate[w] = "locked"
        /\ wstate[v] = "working"
        /\ inserter # <<>>


\* C22. Failure isolation: the step in which a Worker's work() panics changes
\* nothing but that Worker; while the DeliveryService lives no Worker ends
\* except by a panic of its own work(), and next() never panics; after a
\* failure every remaining Worker can take its next step (a send_message
\* waits only while the deliverer channel is full), and next() can take
\* every message the Workers delivered and stores its data for the caller.
C22_FailureIsolation ==
    /\ [][\A w \in Workers :
            (wstate[w] = "working" /\ wstate'[w] = "panicked")
            => /\ \A v \in Workers \ {w} :
                     wstate'[v] = wstate[v] /\ wmsg'[v] = wmsg[v]
               /\ UNCHANGED <<callerVars, poolVars, feederVars, inserter,
                              deliverer, lock, poisoned>>]_vars
    /\ [][\A v \in Workers :
            (wstate'[v] = "panicked" /\ wstate[v] # "panicked")
            => (wstate[v] = "working" \/ ~rx_deliverer)]_vars
    /\ [](WorkFailed
            => /\ pc # "panicked"
               /\ \A v \in Workers :
                     wstate[v] \in Looping
                     => \/ ENABLED WorkerStep(v)
                        \/ /\ wstate[v] = "sending"
                           /\ Len(deliverer) >= channel_size
               /\ (pc \in GetPcs /\ deliverer # <<>>) => ENABLED FeederGet)
    /\ [][(WorkFailed /\ pc \in GetPcs /\ deliverer' # deliverer
             /\ Len(deliverer') < Len(deliverer))
            => /\ deliverer' = Tail(deliverer)
               /\ pc' # "panicked"
               /\ IF pc' = "idle"
                  THEN /\ last_op' = "next:Some"
                       /\ results' = results (+)
                            SetToBag({clone_message_data(Head(deliverer))})
                  ELSE new_data' = clone_message_data(Head(deliverer))]_vars

\* after a Worker's failure a next() call took an input from input_vec, and
\* the remaining Worker has received, worked and delivered its message,
\* which next() is about to take
C22_Witness ==
    /\ crash_seen
    /\ WorkFailed
    /\ pc \in GetPcs
    /\ deliverer # <<>>
    /\ Head(deliverer).data # 0
    /\ \E k \in 1 .. Len(call_backlog) :
          Head(deliverer).input = call_backlog[k]


C24_NoUseOfDestroyedQueue ==
    /\ [](/\ lock # 0 => ReceiverAlive
          /\ ~ReceiverAlive => inserter = <<>>
          /\ ~ReceiverAlive => pc \in {"drop_tx_deliverer", "dropped"})
    /\ [][/\ ~ReceiverAlive => ~ReceiverAlive'
          /\ (ReceiverAlive /\ ~ReceiverAlive')
             => (~rx_inserter' /\ StrongHolders' = {})
          /\ \A w \in Workers :
                /\ (wstate[w] \notin Upgraded /\ wstate'[w] \in Upgraded)
                   => (ReceiverAlive /\ wstate[w] = "poll")
                /\ (~ReceiverAlive /\ wstate[w] = "poll"
                      /\ wstate'[w] # "poll")
                   => wstate'[w] = "none"]_vars

\* the pool is dropped, the last upgraded Arc is gone, and a Worker's
\* upgrade has returned None
C24_Witness ==
    /\ pc = "dropped"
    /\ ~ReceiverAlive
    /\ \E w \in Workers : wstate[w] = "none"


\* C26. Case 3 of retrieve_data (an input popped, messages = 0): a fresh
\* message is made for the popped input and sent; feed_initial_messages
\* sends fresh messages until messages = package_number or input_vec is
\* empty; one message is received and dropped, its data kept; the second
\* feed_initial_messages sends exactly one fresh message if input_vec is not
\* empty and none otherwise, and next() returns the kept data.
C26_BootstrapStep ==
    /\ [](pc = "c3_get"
            => /\ messages >= 1
               /\ messages = package_number \/ input_vec = <<>>)
    /\ [][/\ (pc = "idle" /\ messages = 0 /\ input_vec # <<>>
               /\ pc' \notin {"idle", "drop_lock"})
             => /\ pc' = "c3_send"
                /\ input_vec' = Front(input_vec)
                /\ message' = set_input(new_message, Last(input_vec))
                /\ constructed' = constructed + 1
          /\ (pc = "c3_send" /\ pc' # pc)
             => /\ inserter' = Append(inserter, message)
                /\ messages' = 1
                /\ pc' = IF input_vec # <<>> THEN "c3_feed1" ELSE "c3_get"
          /\ (pc = "c3_feed1" /\ messages' # messages)
             => /\ inserter' = Append(inserter, message)
                /\ message.data = 0
                /\ messages' = messages + 1
                /\ pc' = IF messages' < package_number /\ input_vec # <<>>
                         THEN "c3_feed1"
                         ELSE "c3_get"
          /\ (pc = "c3_get" /\ pc' # pc)
             => /\ deliverer' = Tail(deliverer)
                /\ messages' = messages - 1
                /\ inserter' = inserter
                /\ IF input_vec # <<>>
                   THEN /\ pc' = "c3_feed2"
                        /\ input_vec' = Front(input_vec)
                        /\ message' = set_input(new_message,
                                                Last(input_vec))
                        /\ constructed' = constructed + 1
                        /\ new_data' = clone_message_data(Head(deliverer))
                   ELSE /\ pc' = "idle"
                        /\ last_op' = "next:Some"
                        /\ results' = results (+)
                             SetToBag({clone_message_data(Head(deliverer))})
          /\ (pc = "c3_feed2" /\ pc' # pc)
             => /\ inserter' = Append(inserter, message)
                /\ messages' = messages + 1
                /\ pc' = "idle"
                /\ last_op' = "next:Some"
                /\ results' = results (+) SetToBag({new_data})]_vars

\* the second feed_initial_messages of case 3 has taken one input for its
\* one message and leaves others in input_vec
C26_Witness ==
    /\ pc = "c3_feed2"
    /\ input_vec # <<>>
    /\ messages = package_number - 1


\* C27. Queue bounds: the inserter and the deliverer channel each hold at
\* most channel_size messages; a try_send on a full channel enqueues nothing
\* (the sender stays where it is and tries again); and messages goes up by
\* one exactly with the feeder's successful try_send and down by one exactly
\* with its successful try_recv.
C27_QueueBounds ==
    /\ [](/\ Len(inserter) <= channel_size
          /\ Len(deliverer) <= channel_size
          /\ (pc \in SendPcs /\ rx_inserter
               /\ Len(inserter) = channel_size) => ~ENABLED FeederSend
          /\ \A w \in Workers :
                (wstate[w] = "sending" /\ rx_deliverer
                 /\ Len(deliverer) = channel_size) => ~ENABLED WorkerSend(w))
    /\ [][/\ messages' # messages
             => \/ /\ pc \in SendPcs
                   /\ Len(inserter) < channel_size
                   /\ inserter' = Append(inserter, message)
                   /\ messages' = messages + 1
                \/ /\ pc \in GetPcs
                   /\ deliverer # <<>>
                   /\ deliverer' = Tail(deliverer)
                   /\ messages' = messages - 1
          /\ (pc \in SendPcs /\ Len(inserter') > Len(inserter))
             => messages' = messages + 1
          /\ (pc \in GetPcs /\ Len(deliverer') < Len(deliverer))
             => messages' = messages - 1]_vars

\* the feeder is in send_message with the inserter channel full while a
\* Worker is in send_message with the deliverer channel full
C27_Witness ==
    /\ pc \in SendPcs
    /\ Len(inserter) = channel_size
    /\ Len(deliverer) = channel_size
    /\ \E w \in Workers : wstate[w] = "sending"


\* C28. The counter is exact: while no Worker has failed and the pool is not
\* being dropped, messages is the number of messages in the inserter
\* channel, in the hands of working or sending Workers and in the deliverer
\* channel together, between two calls and inside a call alike.
C28_CounterExact ==
    ((\A w \in Workers : wstate[w] # "panicked") /\ pc \notin DropPcs)
    => messages = Held

\* between two calls, with no failure so far, the counted messages are
\* spread over the inserter channel, a Worker and the deliverer channel
C28_Witness ==
    /\ pc = "idle"
    /\ \A w \in Workers : wstate[w] # "panicked"
    /\ inserter # <<>>
    /\ deliverer # <<>>
    /\ \E w \in Workers : wstate[w] = "working"
    /\ messages = Held


\* package_number is at most what the two channels and the Workers hold
WithinCapacity == package_number <= 2 * channel_size + cfg.worker_number

\* the feeder is in send_message with the inserter channel full while every
\* Worker is in send_message with the deliverer channel full
Jammed ==
    /\ pc \in SendPcs
    /\ Len(inserter) = channel_size
    /\ Len(deliverer) = channel_size
    /\ \A w \in 1 .. cfg.worker_number : wstate[w] = "sending"

\* C29. With package_number <= 2 * channel_size + worker_number (the
\* defaults have package_number = 2 * worker_number) the pool never reaches
\* the state where the feeder waits on a full inserter channel while every
\* Worker waits on a full deliverer channel, and every next() call returns.
C29_NoJamWithinCapacity ==
    /\ [](WithinCapacity => ~Jammed)
    /\ (WithinCapacity /\ pc \in NextPcs) ~> (pc = "idle")

\* the largest package_number within capacity, with both channels full and
\* every Worker holding a message while next() waits for a result
C29_Witness ==
    /\ package_number = 2 * channel_size + cfg.worker_number
    /\ messages = package_number
    /\ pc \in GetPcs
    /\ Len(inserter) = channel_size
    /\ Len(deliverer) = channel_size


\* C30. The budget is kept full: when next() has just returned Some and
\* input_vec still holds inputs, messages = package_number, whichever branch
\* of retrieve_data the call took.
C30_BudgetKeptFull ==
    (pc = "idle" /\ last_op = "next:Some" /\ input_vec # <<>>)
    => messages = package_number

\* a second or later next() has just returned Some with inputs left and the
\* budget full
C30_Witness ==
    /\ pc = "idle"
    /\ last_op = "next:Some"
    /\ input_vec # <<>>
    /\ BagCardinality(results) >= 2
    /\ messages = package_number


\* C31. get_message is called only with messages >= 1, in every branch of
\* retrieve_data and for every interleaving of feed_feeder and next(): the
\* decrement never takes messages below 0, and a message the feeder waits
\* for is one it has sent and that is still in a channel or with a Worker.
C31_CollectOnlyWhenInFlight ==
    /\ messages >= 0
    /\ pc \in GetPcs => (messages >= 1 /\ Held >= 1)

\* the feeder is in get_message for its last message, which waits in the
\* deliverer channel: the decrement will give 0
C31_Witness ==
    /\ pc \in GetPcs
    /\ messages = 1
    /\ deliverer # <<>>


\* every Worker thread the pool spawned has ended by a panic
AllDead == Spawned # {} /\ \A w \in Spawned : wstate[w] = "panicked"

\* next() waits in get_message with an empty deliverer channel and no Worker
\* left to send on it, while the pool lives
WaitsOnDead == AllDead /\ pc \in GetPcs /\ deliverer = <<>> /\ rx_deliverer

\* C32. While the pool lives the feeder never sees a disconnected channel:
\* in send_message the Receiver of the inserter channel is alive by the
\* pool's own Arc, in get_message the deliverer channel has the pool's own
\* SyncSender, and neither panic of the feeder is ever reached, even with
\* every Worker dead; a get_message that then finds the deliverer channel
\* empty waits for ever and returns nothing.
C32_NoDisconnectSeen ==
    /\ [](/\ pc # "panicked"
          /\ pc \in SendPcs => (rx_inserter /\ ReceiverAlive)
          /\ pc \in GetPcs => (tx_deliverer /\ DelivererSenders)
          /\ WaitsOnDead => ~ENABLED FeederGet)
    /\ [][WaitsOnDead
            => /\ WaitsOnDead'
               /\ UNCHANGED <<pc, last_op, messages, results, eos>>]_vars

\* both Workers have panicked in work() and next() waits in get_message for
\* a message that will not come
C32_Witness ==
    /\ WaitsOnDead
    /\ Cardinality(Spawned) >= 2
    /\ messages >= 2


\* the DeliveryService holds all four channel ends: it has dropped no field
PoolHoldsChannels == tx_inserter /\ rx_deliverer /\ rx_inserter /\ tx_deliverer

\* C33. While the pool holds its channel ends and no work() fails, no Worker
\* leaves its loop: no upgrade has returned None, no try_recv Disconnected,
\* no try_lock Poisoned and no try_send Disconnected, so every spawned
\* Worker is polling (before the upgrade, upgraded, or with the guard),
\* working or sending, and none has ended.
C33_WorkersStayInLoop ==
    PoolHoldsChannels
    => /\ ~poisoned
       /\ \A w \in Workers :
             wstate[w] \in {"unspawned", "poll", "upgraded", "locked",
                            "working", "sending"}

\* the pool lives and has returned results; a Worker is in send_message on a
\* full deliverer channel (Full, not Disconnected) and another holds the
\* guard on an empty inserter channel (Empty, not Disconnected)
C33_Witness ==
    /\ PoolHoldsChannels
    /\ results # EmptyBag
    /\ Len(deliverer) = channel_size
    /\ inserter = <<>>
    /\ \E w, v \in Workers :
          /\ wstate[w] = "sending"
          /\ wstate[v] = "locked"

====
